---- MODULE Spec2Model ----
(***************************************************************************)
(* The ESET-VM2 assembler of src/res/compiler.py as a state machine: the   *)
(* driver (main) runs Parser.analyse over the lines the Lexer yields and   *)
(* then Assembler.build, which emits the bit stream, patches forward       *)
(* label references, reconciles the data size and writes the output file.  *)
(*                                                                         *)
(* Text is modelled as sequences of one-character strings, so that the     *)
(* lexer's splitting, the parser's classification and integer parsing and  *)
(* the emitter's binary formatting are computed rather than assumed.       *)
(***************************************************************************)
EXTENDS Integers, Sequences, FiniteSets, TLC

\* The number of source lines the input file may hold.
MaxLines == 5

VARIABLES
    input,                \* which vocabulary the input file's lines come from
    pc,                   \* position of main: "analyse", "build", "exit"
    line_no,              \* Lexer.analyse: lines read from the file so far
    parse_mode,           \* Parser.__parse_mode
    data_size,            \* Parser.data_size  (<<>> is None, <<n>> is n)
    data_labels,          \* Parser.data_labels
    data_section,         \* Parser.data_section
    code_labels,          \* Parser.code_labels
    code_section,         \* Parser.code_section
    last_parsed_line,     \* Parser.last_parsed_line
    last_parsed_line_no,  \* Parser.last_parsed_line_no
    assembler,            \* main: whether Assembler(parser) was constructed
    bytecode,             \* Assembler.__bytecode
    offsets_list,         \* Assembler.__offsets_list
    offset_patches,       \* Assembler.__offset_patches
    file_opened,          \* whether build opened (created) the output file
    file,                 \* the bytes of the output file
    stdout,               \* what the run printed
    exc,                  \* the exception that ended the run, "none" if none
    exit_code             \* the process exit status, -1 while running

vars == <<input, pc, line_no, parse_mode, data_size, data_labels, data_section,
          code_labels, code_section, last_parsed_line, last_parsed_line_no,
          assembler, bytecode, offsets_list, offset_patches, file_opened, file,
          stdout, exc, exit_code>>

-----------------------------------------------------------------------------
(* Characters and general sequence helpers                                 *)

None == <<>>

Digits == <<"0", "1", "2", "3", "4", "5", "6", "7", "8", "9">>

HexLetters == <<"a", "b", "c", "d", "e", "f">>

HexLettersUpper == <<"A", "B", "C", "D", "E", "F">>

\* The value of character c as a digit, -1 when it is none (Python's int()).
DigitValue(c) ==
    IF \E i \in 1..10 : Digits[i] = c
    THEN (CHOOSE i \in 1..10 : Digits[i] = c) - 1
    ELSE IF \E i \in 1..6 : HexLetters[i] = c
    THEN (CHOOSE i \in 1..6 : HexLetters[i] = c) + 9
    ELSE IF \E i \in 1..6 : HexLettersUpper[i] = c
    THEN (CHOOSE i \in 1..6 : HexLettersUpper[i] = c) + 9
    ELSE -1

IsSpace(c) == c \in {" ", "\t", "\n", "\r"}

Reverse(s) == <<>> \o [i \in 1..Len(s) |-> s[Len(s) + 1 - i]]

Repeat(c, n) == <<>> \o [i \in 1..n |-> c]

StartsWith(s, p) == Len(s) >= Len(p) /\ SubSeq(s, 1, Len(p)) = p

EndsWith(s, p) == Len(s) >= Len(p) /\ SubSeq(s, Len(s) - Len(p) + 1, Len(s)) = p

\* str.lower() on the letters int() cares about.
Lower(c) ==
    IF \E i \in 1..6 : HexLettersUpper[i] = c
    THEN HexLetters[CHOOSE i \in 1..6 : HexLettersUpper[i] = c]
    ELSE IF c = "X" THEN "x" ELSE IF c = "O" THEN "o" ELSE c

-----------------------------------------------------------------------------
(* Lexer.analyse: line.split("#", 2)[0].split()                            *)

\* line.split("#", 2)[0]: the text before the first "#".
BeforeHash(line) ==
    IF \E i \in 1..Len(line) : line[i] = "#"
    THEN SubSeq(line, 1, (CHOOSE i \in 1..Len(line) :
                             line[i] = "#" /\ \A j \in 1..(i - 1) : line[j] # "#") - 1)
    ELSE line

RECURSIVE SplitFrom(_, _, _, _)
\* str.split(): the maximal runs of non-whitespace characters of s, in order.
SplitFrom(s, i, cur, acc) ==
    IF i > Len(s)
    THEN IF cur = <<>> THEN acc ELSE Append(acc, cur)
    ELSE IF IsSpace(s[i])
    THEN SplitFrom(s, i + 1, <<>>, IF cur = <<>> THEN acc ELSE Append(acc, cur))
    ELSE SplitFrom(s, i + 1, Append(cur, s[i]), acc)

Split(s) == SplitFrom(s, 1, <<>>, <<>>)

Tokens(line) == Split(BeforeHash(line))

-----------------------------------------------------------------------------
(* Python's int(text, base) for base 10, 16 and 0.                         *)
(* The result is [ok, neg, base, digits]: the sign, the base found and the *)
(* digit values, most significant first; ok is FALSE for a ValueError.     *)

IntFail == [ok |-> FALSE, neg |-> FALSE, base |-> 10, digits |-> <<>>]

\* The digits of a literal body: digits of the base, single underscores
\* allowed between digits (and, after a base prefix, before the first digit).
DigitsOk(body, base, afterPrefix) ==
    /\ body # <<>>
    /\ \A i \in 1..Len(body) :
          \/ (DigitValue(body[i]) >= 0 /\ DigitValue(body[i]) < base)
          \/ /\ body[i] = "_"
             /\ i < Len(body)
             /\ body[i + 1] # "_"
             /\ (i > 1 \/ afterPrefix)

DigitValues(body) ==
    LET keep == SelectSeq(body, LAMBDA c : c # "_")
    IN  <<>> \o [i \in 1..Len(keep) |-> DigitValue(keep[i])]

PrefixBase(body) ==
    IF Len(body) >= 2 /\ body[1] = "0"
    THEN CASE Lower(body[2]) = "x" -> 16
           [] Lower(body[2]) = "o" -> 8
           [] Lower(body[2]) = "b" -> 2
           [] OTHER -> 0
    ELSE 0

ParseInt(text, base) ==
    LET signed == text # <<>> /\ text[1] \in {"+", "-"}
        neg    == text # <<>> /\ text[1] = "-"
        body   == IF signed THEN Tail(text) ELSE text
        pb     == PrefixBase(body)
        rest   == IF pb # 0 THEN SubSeq(body, 3, Len(body)) ELSE body
    IN  IF base = 0
        THEN IF pb # 0
             THEN IF DigitsOk(rest, pb, TRUE)
                  THEN [ok |-> TRUE, neg |-> neg, base |-> pb, digits |-> DigitValues(rest)]
                  ELSE IntFail
             ELSE IF /\ DigitsOk(body, 10, FALSE)
                     /\ (body[1] # "0" \/ \A i \in 1..Len(body) : body[i] \in {"0", "_"})
                  THEN [ok |-> TRUE, neg |-> neg, base |-> 10, digits |-> DigitValues(body)]
                  ELSE IntFail
        ELSE IF pb = base
             THEN IF DigitsOk(rest, base, TRUE)
                  THEN [ok |-> TRUE, neg |-> neg, base |-> base, digits |-> DigitValues(rest)]
                  ELSE IntFail
             ELSE IF DigitsOk(body, base, FALSE)
                  THEN [ok |-> TRUE, neg |-> neg, base |-> base, digits |-> DigitValues(body)]
                  ELSE IntFail

RECURSIVE Horner(_, _, _)
Horner(digits, base, acc) ==
    IF digits = <<>> THEN acc
    ELSE Horner(Tail(digits), base, acc * base + Head(digits))

\* The integer a parsed literal denotes (for the small literals of
\* .dataSize and the data bytes).
IntValue(p) ==
    LET m == Horner(p.digits, p.base, 0) IN IF p.neg THEN 0 - m ELSE m

-----------------------------------------------------------------------------------------------------------------------------------------------------
(* Binary formatting: "{0:0Wb}".format(n), for integers of any size.       *)
(* Python's integers are unbounded; a parsed literal's magnitude is kept   *)
(* as 16-bit limbs and turned into binary digits, both least significant   *)
(* first.                                                                  *)

RECURSIVE NatBits(_)
\* The binary digits (0/1) of a natural number, least significant first.
NatBits(n) == IF n = 0 THEN <<>> ELSE <<n % 2>> \o NatBits(n \div 2)

RECURSIVE StripHigh(_)
\* Binary digits without their leading (most significant) zeros.
StripHigh(m) ==
    IF m # <<>> /\ m[Len(m)] = 0 THEN StripHigh(SubSeq(m, 1, Len(m) - 1)) ELSE m

RECURSIVE MulAdd(_, _, _)
\* limbs * base + carry, in limbs.
MulAdd(limbs, base, carry) ==
    IF limbs = <<>>
    THEN IF carry = 0 THEN <<>> ELSE <<carry>>
    ELSE <<(Head(limbs) * base + carry) % 65536>>
         \o MulAdd(Tail(limbs), base, (Head(limbs) * base + carry) \div 65536)

RECURSIVE LimbsFrom(_, _, _)
LimbsFrom(digits, base, acc) ==
    IF digits = <<>> THEN acc
    ELSE LimbsFrom(Tail(digits), base, MulAdd(acc, base, Head(digits)))

RECURSIVE LimbBits(_)
\* The binary digits of limbs, sixteen for each limb.
LimbBits(limbs) ==
    IF limbs = <<>> THEN <<>>
    ELSE LET low == NatBits(Head(limbs))
         IN  low \o Repeat(0, 16 - Len(low)) \o LimbBits(Tail(limbs))

\* The magnitude of a parsed literal, however large, in binary digits.
Magnitude(p) == StripHigh(LimbBits(LimbsFrom(p.digits, p.base, <<>>)))

\* "{0:0<width>b}".format(n) for n of sign neg and magnitude m: the binary
\* digits most significant first, zero-filled after the sign to at least
\* width characters in all, never truncated.
FormatBinary(neg, m, width) ==
    LET mag    == StripHigh(m)
        digits == IF mag = <<>> THEN <<"0">>
                  ELSE <<>> \o [i \in 1..Len(mag) |->
                                  IF mag[Len(mag) + 1 - i] = 1 THEN "1" ELSE "0"]
        sign   == IF neg /\ mag # <<>> THEN <<"-">> ELSE <<>>
        fill   == width - Len(sign) - Len(digits)
    IN  sign \o Repeat("0", IF fill > 0 THEN fill ELSE 0) \o digits

-----------------------------------------------------------------------------
(* Assembler: the static tables                                            *)

\* Assembler.Opcodes: mnemonic -> Opcode(code, args)
Opcodes ==
       (<<"m", "o", "v">> :> [code |-> <<"0", "0", "0">>, args |-> <<"R", "R">>])
    @@ (<<"l", "o", "a", "d", "C", "o", "n", "s", "t">> :> [code |-> <<"0", "0", "1">>, args |-> <<"C", "R">>])
    @@ (<<"a", "d", "d">> :> [code |-> <<"0", "1", "0", "0", "0", "1">>, args |-> <<"R", "R", "R">>])
    @@ (<<"s", "u", "b">> :> [code |-> <<"0", "1", "0", "0", "1", "0">>, args |-> <<"R", "R", "R">>])
    @@ (<<"d", "i", "v">> :> [code |-> <<"0", "1", "0", "0", "1", "1">>, args |-> <<"R", "R", "R">>])
    @@ (<<"m", "o", "d">> :> [code |-> <<"0", "1", "0", "1", "0", "0">>, args |-> <<"R", "R", "R">>])
    @@ (<<"m", "u", "l">> :> [code |-> <<"0", "1", "0", "1", "0", "1">>, args |-> <<"R", "R", "R">>])
    @@ (<<"c", "o", "m", "p", "a", "r", "e">> :> [code |-> <<"0", "1", "1", "0", "0">>, args |-> <<"R", "R", "R">>])
    @@ (<<"j", "u", "m", "p">> :> [code |-> <<"0", "1", "1", "0", "1">>, args |-> <<"L">>])
    @@ (<<"j", "u", "m", "p", "E", "q", "u", "a", "l">> :> [code |-> <<"0", "1", "1", "1", "0">>, args |-> <<"L", "R", "R">>])
    @@ (<<"r", "e", "a", "d">> :> [code |-> <<"1", "0", "0", "0", "0">>, args |-> <<"R", "R", "R", "R">>])
    @@ (<<"w", "r", "i", "t", "e">> :> [code |-> <<"1", "0", "0", "0", "1">>, args |-> <<"R", "R", "R">>])
    @@ (<<"c", "o", "n", "s", "o", "l", "e", "R", "e", "a", "d">> :> [code |-> <<"1", "0", "0", "1", "0">>, args |-> <<"R">>])
    @@ (<<"c", "o", "n", "s", "o", "l", "e", "W", "r", "i", "t", "e">> :> [code |-> <<"1", "0", "0", "1", "1">>, args |-> <<"R">>])
    @@ (<<"c", "r", "e", "a", "t", "e", "T", "h", "r", "e", "a", "d">> :> [code |-> <<"1", "0", "1", "0", "0">>, args |-> <<"L", "R">>])
    @@ (<<"j", "o", "i", "n", "T", "h", "r", "e", "a", "d">> :> [code |-> <<"1", "0", "1", "0", "1">>, args |-> <<"R">>])
    @@ (<<"h", "l", "t">> :> [code |-> <<"1", "0", "1", "1", "0">>, args |-> <<>>])
    @@ (<<"s", "l", "e", "e", "p">> :> [code |-> <<"1", "0", "1", "1", "1">>, args |-> <<"R">>])
    @@ (<<"c", "a", "l", "l">> :> [code |-> <<"1", "1", "0", "0">>, args |-> <<"L">>])
    @@ (<<"r", "e", "t">> :> [code |-> <<"1", "1", "0", "1">>, args |-> <<>>])
    @@ (<<"l", "o", "c", "k">> :> [code |-> <<"1", "1", "1", "0">>, args |-> <<"R">>])
    @@ (<<"u", "n", "l", "o", "c", "k">> :> [code |-> <<"1", "1", "1", "1">>, args |-> <<"R">>])

\* Assembler.DataAccessTypes
DataAccessTypes ==
       (<<"b", "y", "t", "e">> :> <<"0", "0">>)
    @@ (<<"w", "o", "r", "d">> :> <<"0", "1">>)
    @@ (<<"d", "w", "o", "r", "d">> :> <<"1", "0">>)
    @@ (<<"q", "w", "o", "r", "d">> :> <<"1", "1">>)

-----------------------------------------------------------------------------
(* Parser                                                                  *)
(* The parser's fields travel as a record p; each __parse_* method is an   *)
(* operator from p and the line's tokens to [p, exc, msg]: the fields      *)
(* after the call and the exception it raised ("none" when it returned).   *)

Returned(p) == [p |-> p, exc |-> "none", msg |-> <<>>]

Raised(p, exception, message) == [p |-> p, exc |-> exception, msg |-> message]

DataSizeToken == <<".", "d", "a", "t", "a", "S", "i", "z", "e">>

CodeToken == <<".", "c", "o", "d", "e">>

DataToken == <<".", "d", "a", "t", "a">>

\* Parser.__parse_section
parse_section(p, tokens) ==
    IF tokens[1] = DataSizeToken
    THEN IF p.data_size # None
         THEN Raised(p, "Parser.Error", <<"Double data size spotted">>)
         ELSE IF Len(tokens) < 2
         THEN Raised(p, "IndexError", <<"list index out of range">>)
         ELSE LET n == ParseInt(tokens[2], 10)
              IN  IF ~n.ok
                  THEN Raised(p, "ValueError", <<"invalid literal for int() with base 10">>)
                  ELSE Returned([p EXCEPT !.data_size = <<IntValue(n)>>])
    ELSE IF tokens[1] = CodeToken
    THEN Returned([p EXCEPT !.parse_mode = "Code"])
    ELSE IF tokens[1] = DataToken
    THEN Returned([p EXCEPT !.parse_mode = "Data"])
    ELSE Raised(p, "Parser.Error", <<"Bad token">>)

\* Parser.__parse_label
parse_label(p, tokens) ==
    LET label == SubSeq(tokens[1], 1, Len(tokens[1]) - 1)
    IN  IF p.parse_mode = "Code"
        THEN IF label \in DOMAIN p.code_labels
             THEN Raised(p, "Parser.Error", <<"Duplicated label">>)
             ELSE Returned([p EXCEPT !.code_labels =
                               (label :> Len(p.code_section)) @@ p.code_labels])
        ELSE IF p.parse_mode = "Data"
        THEN IF label \in DOMAIN p.data_labels
             THEN Raised(p, "Parser.Error", <<"Duplicated label">>)
             ELSE Returned([p EXCEPT !.data_labels =
                               (label :> Len(p.data_section)) @@ p.data_labels])
        ELSE Raised(p, "Parser.Error", <<"Bad label">>)

RECURSIVE JoinTokens(_)
\* " ".join(tokens)
JoinTokens(tokens) ==
    IF tokens = <<>> THEN <<>>
    ELSE IF Len(tokens) = 1 THEN tokens[1]
    ELSE tokens[1] \o <<" ">> \o JoinTokens(Tail(tokens))

RECURSIVE SplitOnComma(_, _, _, _)
SplitOnComma(s, i, cur, acc) ==
    IF i > Len(s) THEN Append(acc, cur)
    ELSE IF s[i] = "," THEN SplitOnComma(s, i + 1, <<>>, Append(acc, cur))
    ELSE SplitOnComma(s, i + 1, Append(cur, s[i]), acc)

RECURSIVE LStrip(_)
LStrip(s) == IF s # <<>> /\ IsSpace(s[1]) THEN LStrip(Tail(s)) ELSE s

RECURSIVE RStrip(_)
RStrip(s) ==
    IF s # <<>> /\ IsSpace(s[Len(s)]) THEN RStrip(SubSeq(s, 1, Len(s) - 1)) ELSE s

\* Parser.__translate_argument_tokens: re.split(r"\s*,\s*", " ".join(tokens)).
\* Each separator takes the whitespace on both sides of its comma, so a
\* piece loses its trailing whitespace when a comma follows it and its
\* leading whitespace when a comma precedes it.
translate_argument_tokens(tokens) ==
    IF Len(tokens) = 0 THEN <<>>
    ELSE LET pieces == SplitOnComma(JoinTokens(tokens), 1, <<>>, <<>>)
             n      == Len(pieces)
         IN  <<>> \o [i \in 1..n |->
                         LET a == IF i > 1 THEN LStrip(pieces[i]) ELSE pieces[i]
                         IN  IF i < n THEN RStrip(a) ELSE a]

RECURSIVE SkipSpaces(_, _)
\* \s* from position i of s: the first position at or after i that holds no
\* whitespace.
SkipSpaces(s, i) ==
    IF i <= Len(s) /\ IsSpace(s[i]) THEN SkipSpaces(s, i + 1) ELSE i

RECURSIVE DigitRunEnd(_, _)
\* [0-9]* from position i of s: the position after the longest run of digits.
DigitRunEnd(s, i) ==
    IF i <= Len(s) /\ DigitValue(s[i]) >= 0 /\ DigitValue(s[i]) <= 9
    THEN DigitRunEnd(s, i + 1) ELSE i

NoMatch == [matched |-> FALSE, id |-> <<>>, ref |-> None, end |-> 0]

\* re.match of Parser.__register_val_pattern, r"r(?P<id>[0-9]+)", at position
\* i of s: a prefix match, the text after the digits is not looked at.
MatchRegisterVal(s, i) ==
    IF i <= Len(s) /\ s[i] = "r" /\ DigitRunEnd(s, i + 1) > i + 1
    THEN [matched |-> TRUE, id |-> SubSeq(s, i + 1, DigitRunEnd(s, i + 1) - 1),
          ref |-> None, end |-> DigitRunEnd(s, i + 1)]
    ELSE NoMatch

\* re.match of Parser.__register_ref_pattern:
\* (?P<ref>byte|word|dword|qword)\s*\[\s*r(?P<id>[0-9]+)\s*\]
MatchRegisterRef(s) ==
    LET widths == {w \in DOMAIN DataAccessTypes : StartsWith(s, w)}
    IN  IF widths = {} THEN NoMatch
        ELSE LET w  == CHOOSE x \in widths : TRUE
                 i1 == SkipSpaces(s, Len(w) + 1)
                 i2 == SkipSpaces(s, i1 + 1)
                 m  == MatchRegisterVal(s, i2)
                 i3 == SkipSpaces(s, m.end)
             IN  IF /\ i1 <= Len(s) /\ s[i1] = "["
                    /\ m.matched
                    /\ i3 <= Len(s) /\ s[i3] = "]"
                 THEN [m EXCEPT !.ref = w, !.end = i3 + 1]
                 ELSE NoMatch

\* RegisterIdTooBig with the bound off by one.
RegisterIdTooBig_OffByOne(register_id) == register_id > 17

\* The register id bound of Parser.__parse_code: "if register_id > 16".
RegisterIdTooBig(register_id) == register_id > 16

RECURSIVE parse_arguments(_, _, _)
\* The argument loop of Parser.__parse_code: the instruction built so far,
\* extended by each argument in turn, or the Parser.Error of the first
\* argument that is refused.
parse_arguments(kinds, argument_data, instruction) ==
    IF kinds = <<>> \/ argument_data = <<>>
    THEN [exc |-> "none", msg |-> <<>>, instruction |-> instruction]
    ELSE IF Head(kinds) = "R"
    THEN LET mv    == MatchRegisterVal(Head(argument_data), 1)
             match == IF mv.matched THEN mv ELSE MatchRegisterRef(Head(argument_data))
             register_id == IntValue(ParseInt(match.id, 10))
         IN  IF ~match.matched
             THEN [exc |-> "Parser.Error", msg |-> <<"Bad register argument type">>,
                   instruction |-> instruction]
             ELSE IF RegisterIdTooBig(register_id)
             THEN [exc |-> "Parser.Error",
                   msg |-> <<"Bad register argument type (too big)">>,
                   instruction |-> instruction]
             ELSE parse_arguments(Tail(kinds), Tail(argument_data),
                                  Append(instruction, <<register_id, match.ref>>))
    ELSE parse_arguments(Tail(kinds), Tail(argument_data),
                         Append(instruction, Head(argument_data)))

\* Parser.__parse_code
parse_code(p, tokens) ==
    LET opcode_name == tokens[1]
    IN  IF opcode_name \notin DOMAIN Opcodes
        THEN Raised(p, "Parser.Error", <<"Bad opcode">>)
        ELSE LET opcode        == Opcodes[opcode_name]
                 argument_data == translate_argument_tokens(Tail(tokens))
             IN  IF Len(argument_data) # Len(opcode.args)
                 THEN Raised(p, "Parser.Error", <<"Bad opcode argument count">>)
                 ELSE LET r == parse_arguments(opcode.args, argument_data, <<opcode_name>>)
                      IN  IF r.exc # "none"
                          THEN Raised(p, r.exc, r.msg)
                          ELSE Returned([p EXCEPT !.code_section =
                                            Append(p.code_section, r.instruction)])

\* The data byte bound of Parser.__parse_data: "if value > 255".
DataValueTooBig(value) == value > 255

RECURSIVE parse_data(_, _)
\* Parser.__parse_data: the entries are appended one by one, so the entries
\* before a refused one stay in data_section.
parse_data(p, tokens) ==
    IF tokens = <<>> THEN Returned(p)
    ELSE LET n == ParseInt(Head(tokens), 16)
         IN  IF ~n.ok
             THEN Raised(p, "ValueError", <<"invalid literal for int() with base 16">>)
             ELSE IF DataValueTooBig(IntValue(n))
             THEN Raised(p, "Parser.Error", <<"Bad value in line">>)
             ELSE parse_data([p EXCEPT !.data_section = Append(p.data_section, IntValue(n))],
                             Tail(tokens))

\* The body of the loop of Parser.analyse, for one lexed line.
parse_line(p, tokens) ==
    IF StartsWith(tokens[1], <<".">>)
    THEN parse_section(p, tokens)
    ELSE IF Len(tokens) = 1 /\ EndsWith(tokens[1], <<":">>)
    THEN parse_label(p, tokens)
    ELSE IF p.parse_mode = "Code"
    THEN parse_code(p, tokens)
    ELSE IF p.parse_mode = "Data"
    THEN parse_data(p, tokens)
    ELSE Raised(p, "Parser.Error", <<"Bad token">>)

-----------------------------------------------------------------------------
(* Assembler                                                               *)
(* The assembler's buffers travel as a record a = [bytecode, offsets_list, *)
(* offset_patches, exc].                                                   *)

\* Assembler.__init__ and the first three lines of build.
FreshAssembler ==
    [bytecode |-> <<>>, offsets_list |-> <<>>,
     offset_patches |-> [position \in {} |-> 0], exc |-> "none"]

\* Assembler.__append_bits
append_bits(a, bits) == [a EXCEPT !.bytecode = a.bytecode \o bits]

\* Assembler.__assemble_register: the bits of one register argument.
register_bits(argument_data) ==
    LET register_id    == argument_data[1]
        reference_type == argument_data[2]
    IN  IF reference_type # None
        THEN <<"1">> \o Reverse(DataAccessTypes[reference_type])
                     \o Reverse(FormatBinary(FALSE, NatBits(register_id), 4))
        ELSE <<"0">> \o Reverse(FormatBinary(FALSE, NatBits(register_id), 4))

\* Assembler.__assemble_constant: the bits of one constant argument, once
\* int(argument_data, 0) has parsed it to n.
constant_bits(n) == Reverse(FormatBinary(n.neg, Magnitude(n), 64))

\* Assembler.__assemble_label
assemble_label(a, code_labels_, argument_data) ==
    IF argument_data \notin DOMAIN code_labels_
    THEN [a EXCEPT !.exc = "Assembler.Error"]
    ELSE LET offset == code_labels_[argument_data]
             known  == offset < Len(a.offsets_list)
             address == IF known THEN a.offsets_list[offset + 1] ELSE 0
             a1 == IF known THEN a
                   ELSE [a EXCEPT !.offset_patches =
                            (Len(a.bytecode) :> offset) @@ a.offset_patches]
         IN  append_bits(a1, Reverse(FormatBinary(FALSE, NatBits(address), 32)))

RECURSIVE assemble_arguments(_, _, _, _)
\* The argument loop of Assembler.build for one instruction.
assemble_arguments(a, code_labels_, kinds, arguments) ==
    IF kinds = <<>> \/ arguments = <<>> \/ a.exc # "none" THEN a
    ELSE LET next ==
               IF Head(kinds) = "R"
               THEN append_bits(a, register_bits(Head(arguments)))
               ELSE IF Head(kinds) = "C"
               THEN LET n == ParseInt(Head(arguments), 0)
                    IN  IF n.ok THEN append_bits(a, constant_bits(n))
                        ELSE [a EXCEPT !.exc = "ValueError"]
               ELSE assemble_label(a, code_labels_, Head(arguments))
         IN  assemble_arguments(next, code_labels_, Tail(kinds), Tail(arguments))

RECURSIVE assemble_instructions(_, _, _)
\* The instruction loop of Assembler.build.
assemble_instructions(a, code_labels_, instructions) ==
    IF instructions = <<>> \/ a.exc # "none" THEN a
    ELSE LET instruction == Head(instructions)
             opcode == Opcodes[instruction[1]]
             a1 == [a EXCEPT !.offsets_list = Append(a.offsets_list, Len(a.bytecode))]
             a2 == append_bits(a1, opcode.code)
         IN  assemble_instructions(
                 assemble_arguments(a2, code_labels_, opcode.args, Tail(instruction)),
                 code_labels_, Tail(instructions))

\* The body of the loop of Assembler.__apply_patches for one patch.
apply_patch(bytecode_, offsets_list_, position, offset) ==
    LET patched == Reverse(FormatBinary(FALSE, NatBits(offsets_list_[offset + 1]), 32))
    IN  <<>> \o [j \in 1..Len(bytecode_) |->
                    IF j > position /\ j <= position + Len(patched)
                    THEN patched[j - position] ELSE bytecode_[j]]

RECURSIVE apply_patches_from(_, _)
\* The patches are visited in the order they were recorded, which is the
\* order of their positions; a target that is no index of offsets_list
\* raises IndexError and leaves the later patches unapplied.
apply_patches_from(a, positions) ==
    IF positions = {} \/ a.exc # "none" THEN a
    ELSE LET position == CHOOSE x \in positions : \A y \in positions : x <= y
             offset   == a.offset_patches[position]
         IN  IF offset >= Len(a.offsets_list)
             THEN [a EXCEPT !.exc = "IndexError"]
             ELSE apply_patches_from(
                      [a EXCEPT !.bytecode =
                          apply_patch(a.bytecode, a.offsets_list, position, offset)],
                      positions \ {position})

\* apply_patches that leaves the placeholders of forward references as they are.
apply_patches_Skipped(a) == a

\* Assembler.__apply_patches
apply_patches(a) == apply_patches_from(a, DOMAIN a.offset_patches)

\* reconciled_data_size without the widening.
reconciled_data_size_NotWidened(declared, actual_data_size) == declared

\* reconciled_data_size that always takes the actual length.
reconciled_data_size_Overwritten(declared, actual_data_size) == actual_data_size

\* The data-size reconciliation of Assembler.build: the value data_size
\* holds after "if actual_data_size > data_size: data_size = actual_data_size".
reconciled_data_size(declared, actual_data_size) ==
    IF actual_data_size > declared THEN actual_data_size ELSE declared

\* The byte alignment of Assembler.build.
pad_bytecode(bytecode_) ==
    IF Len(bytecode_) % 8 # 0
    THEN bytecode_ \o Repeat("0", 8 - (Len(bytecode_) % 8))
    ELSE bytecode_

\* struct.pack("I", n): four bytes, least significant first; struct.error
\* when n is not in 0 .. 2^32 - 1.
pack_I(n) ==
    IF n < 0 \/ n \div 65536 >= 65536 THEN <<>>
    ELSE <<n % 256, (n \div 256) % 256, (n \div 65536) % 256, n \div 16777216>>

Magic == <<69, 83, 69, 84, 45, 86, 77, 50>>

RECURSIVE write_code(_, _, _)
\* The code loop of the file write: int("".join(bytecode[i:i + 8]), 2) and
\* struct.pack("B", byte) for each group of eight entries.
write_code(w, bytecode_, i) ==
    IF i > Len(bytecode_) \/ w.exc # "none" THEN w
    ELSE LET n == ParseInt(SubSeq(bytecode_, i, i + 7), 2)
         IN  IF ~n.ok THEN [w EXCEPT !.exc = "ValueError"]
             ELSE IF IntValue(n) < 0 \/ IntValue(n) > 255
             THEN [w EXCEPT !.exc = "struct.error"]
             ELSE write_code([w EXCEPT !.file = Append(w.file, IntValue(n))],
                             bytecode_, i + 8)

RECURSIVE write_data(_, _)
\* The data loop of the file write: struct.pack("B", data_byte).
write_data(w, data) ==
    IF data = <<>> \/ w.exc # "none" THEN w
    ELSE IF Head(data) < 0 \/ Head(data) > 255
    THEN [w EXCEPT !.exc = "struct.error"]
    ELSE write_data([w EXCEPT !.file = Append(w.file, Head(data))], Tail(data))

RECURSIVE write_header(_, _)
\* The three struct.pack("I", ...) writes of the header.
write_header(w, fields) ==
    IF fields = <<>> \/ w.exc # "none" THEN w
    ELSE IF pack_I(Head(fields)) = <<>> THEN [w EXCEPT !.exc = "struct.error"]
    ELSE write_header([w EXCEPT !.file = w.file \o pack_I(Head(fields))], Tail(fields))

\* The "with open(filepath, "wb")" block of Assembler.build: what the file
\* holds when the block is left, and the exception that left it.
write_file(bytecode_, data_size_, data_section_) ==
    write_data(
        write_code(
            write_header([file |-> Magic, exc |-> "none"],
                         <<Len(bytecode_) \div 8, data_size_, Len(data_section_)>>),
            bytecode_, 1),
        data_section_)

\* Assembler.build when it ends before the output file is opened.
unwritten(p, a, exception) ==
    [bytecode |-> a.bytecode, offsets_list |-> a.offsets_list,
     offset_patches |-> a.offset_patches, data_size |-> p.data_size,
     file_opened |-> FALSE, file |-> <<>>, stdout |-> <<>>, exc |-> exception]

\* Assembler.build from the byte alignment on: bits is the padded bit
\* buffer, size the reconciled data size, w the outcome of the file write.
written(p, a, size, bits, w) ==
    [bytecode |-> bits, offsets_list |-> a.offsets_list,
     offset_patches |-> a.offset_patches, data_size |-> <<size>>,
     file_opened |-> TRUE, file |-> w.file,
     stdout |-> IF Len(p.data_section) > p.data_size[1]
                THEN << <<"Warning: bad .dataSize, was %d but used %d, expanding",
                          p.data_size[1], Len(p.data_section)>> >>
                ELSE <<>>,
     exc |-> w.exc]

write_out(p, a, size, bits) ==
    written(p, a, size, bits, write_file(bits, size, p.data_section))

\* Assembler.build after __apply_patches: comparing the data length with a
\* data_size of None raises TypeError.
build_after_patches(p, a) ==
    IF a.exc # "none" THEN unwritten(p, a, a.exc)
    ELSE IF p.data_size = None THEN unwritten(p, a, "TypeError")
    ELSE write_out(p, a, reconciled_data_size(p.data_size[1], Len(p.data_section)),
                   pad_bytecode(a.bytecode))

\* Assembler.build on the parser's fields p: the assembler's buffers, the
\* parser's data_size, the output file and the printed warning afterwards,
\* and the exception that ended it ("none" when it returned).
build(p) ==
    build_after_patches(p,
        apply_patches(assemble_instructions(FreshAssembler, p.code_labels, p.code_section)))

-----------------------------------------------------------------------------
(* The input file                                                          *)
(* A source file is any sequence of at most MaxLines lines, all taken from *)
(* one of three vocabularies; the lexer reads it line by line.             *)

\* Lines about code labels and the instructions that refer to them.
LabelLines ==
    { <<".", "d", "a", "t", "a", "S", "i", "z", "e", " ", "0">>,   \* .dataSize 0
      <<".", "c", "o", "d", "e">>,   \* .code
      <<"e", "n", "d", ":">>,   \* end:
      <<"h", "l", "t">>,   \* hlt
      <<"j", "u", "m", "p", " ", "e", "n", "d">>,   \* jump end
      <<"j", "u", "m", "p", " ", "s", "t", "a", "r", "t">>,   \* jump start
      <<"#", " ", "c", "o", "m", "m", "e", "n", "t">>,   \* # comment
      <<"s", "t", "a", "r", "t", ":">>,   \* start:
      <<"j", "u", "m", "p", "E", "q", "u", "a", "l", " ", "e", "n", "d", ",", " ", "r", "1", ",", " ", "b", "y", "t", "e", "[", "r", "2", "]">> }   \* jumpEqual end, r1, byte[r2]

\* Lines about register and constant operands and unknown mnemonics.
OperandLines ==
    { <<".", "d", "a", "t", "a", "S", "i", "z", "e", " ", "0">>,   \* .dataSize 0
      <<".", "c", "o", "d", "e">>,   \* .code
      <<"m", "o", "v", " ", "d", "w", "o", "r", "d", " ", "[", " ", "r", "3", " ", "]", ",", " ", "r", "5">>,   \* mov dword [ r3 ], r5
      <<"c", "o", "n", "s", "o", "l", "e", "W", "r", "i", "t", "e", " ", "r", "1", "6">>,   \* consoleWrite r16
      <<"c", "o", "n", "s", "o", "l", "e", "W", "r", "i", "t", "e", " ", "r", "1", "7">>,   \* consoleWrite r17
      <<"l", "o", "a", "d", "C", "o", "n", "s", "t", " ", "-", "1", ",", " ", "r", "0">>,   \* loadConst -1, r0
      <<"l", "o", "a", "d", "C", "o", "n", "s", "t", " ", "0", "x", "f", "f", ",", " ", "r", "0">>,   \* loadConst 0xff, r0
      <<"n", "o", "p">>,   \* nop
      <<"h", "l", "t">>,   \* hlt
      <<"u", "n", "l", "o", "c", "k", " ", "r", "0">> }   \* unlock r0

\* Lines about the data section and the .dataSize directive.
DataLines ==
    { <<".", "d", "a", "t", "a", "S", "i", "z", "e", " ", "0">>,   \* .dataSize 0
      <<".", "d", "a", "t", "a", "S", "i", "z", "e", " ", "2">>,   \* .dataSize 2
      <<".", "d", "a", "t", "a", "S", "i", "z", "e">>,   \* .dataSize
      <<".", "d", "a", "t", "a", "S", "i", "z", "e", " ", "x">>,   \* .dataSize x
      <<".", "d", "a", "t", "a">>,   \* .data
      <<".", "c", "o", "d", "e">>,   \* .code
      <<"d", ":">>,   \* d:
      <<"f", "f">>,   \* ff
      <<"-", "1">>,   \* -1
      <<"1", "0", "0">>,   \* 100
      <<"D", "E", " ", "A", "D">>,   \* DE AD
      <<"h", "l", "t">> }   \* hlt

Inputs == {"labels", "operands", "data"}

SourceLines(which) ==
    CASE which = "labels"   -> LabelLines
      [] which = "operands" -> OperandLines
      [] OTHER              -> DataLines
-----------------------------------------------------------------------------
(* The driver                                                              *)

\* The parser's fields as the record the parsing operators take.
ParserFields ==
    [parse_mode |-> parse_mode, data_size |-> data_size, data_labels |-> data_labels,
     data_section |-> data_section, code_labels |-> code_labels,
     code_section |-> code_section]

\* main up to the call of parser.analyse(): Parser.__init__ and the resets
\* at the top of Parser.analyse.
Init ==
    /\ input \in Inputs
    /\ pc = "analyse"
    /\ line_no = 0
    /\ parse_mode = "None"
    /\ data_size = None
    /\ data_labels = [label \in {} |-> 0]
    /\ data_section = <<>>
    /\ code_labels = [label \in {} |-> 0]
    /\ code_section = <<>>
    /\ last_parsed_line = <<>>
    /\ last_parsed_line_no = -1
    /\ assembler = FALSE
    /\ bytecode = <<>>
    /\ offsets_list = <<>>
    /\ offset_patches = [position \in {} |-> 0]
    /\ file_opened = FALSE
    /\ file = <<>>
    /\ stdout = <<>>
    /\ exc = "none"
    /\ exit_code = -1

\* The parser's part of one turn of the loop of Parser.analyse, r being what
\* the line's __parse_* method did. A Parser.Error is caught by main, which
\* prints it and exits with status 2; any other exception ends the process
\* with a traceback and status 1.
Yielded(line, r) ==
    /\ last_parsed_line' = line
    /\ last_parsed_line_no' = line_no + 1
    /\ parse_mode' = r.p.parse_mode
    /\ data_size' = r.p.data_size
    /\ data_labels' = r.p.data_labels
    /\ data_section' = r.p.data_section
    /\ code_labels' = r.p.code_labels
    /\ code_section' = r.p.code_section
    /\ exc' = r.exc
    /\ pc' = IF r.exc = "none" THEN "analyse" ELSE "exit"
    /\ exit_code' = IF r.exc = "none" THEN -1
                    ELSE IF r.exc = "Parser.Error" THEN 2 ELSE 1
    /\ stdout' = IF r.exc = "Parser.Error"
                 THEN Append(stdout, <<"Parser error on line %d: %s",
                                       line_no + 1, r.msg[1]>>)
                 ELSE stdout

\* One turn of the loop of Parser.analyse: the lexer reads the next line of
\* the file and, unless it holds no token, yields it to the parser.
ReadLine(line) ==
    /\ pc = "analyse"
    /\ line_no < MaxLines
    /\ line_no' = line_no + 1
    /\ UNCHANGED <<input, assembler, bytecode, offsets_list, offset_patches,
                   file_opened, file>>
    /\ IF Len(Tokens(line)) = 0
       THEN UNCHANGED <<pc, parse_mode, data_size, data_labels, data_section,
                        code_labels, code_section, last_parsed_line,
                        last_parsed_line_no, stdout, exc, exit_code>>
       ELSE Yielded(line, parse_line(ParserFields, Tokens(line)))

\* The lexer reaches the end of the file: Parser.analyse returns and main
\* constructs the Assembler.
EndOfFile ==
    /\ pc = "analyse"
    /\ pc' = "build"
    /\ assembler' = TRUE
    /\ UNCHANGED <<input, line_no, parse_mode, data_size, data_labels, data_section,
                   code_labels, code_section, last_parsed_line, last_parsed_line_no,
                   bytecode, offsets_list, offset_patches, file_opened, file,
                   stdout, exc, exit_code>>

\* main after assembler.build(output_filepath) ended as r: an
\* Assembler.Error is caught, printed and exits with status 3, success
\* prints "All ok", any other exception ends the process with a traceback
\* and status 1.
Built(r) ==
    /\ bytecode' = r.bytecode
    /\ offsets_list' = r.offsets_list
    /\ offset_patches' = r.offset_patches
    /\ data_size' = r.data_size
    /\ file_opened' = r.file_opened
    /\ file' = r.file
    /\ exc' = r.exc
    /\ stdout' = stdout \o r.stdout \o
                 (IF r.exc = "none" THEN << <<"All ok">> >>
                  ELSE IF r.exc = "Assembler.Error"
                  THEN << <<"Assembler error: %s">> >>
                  ELSE <<>>)
    /\ exit_code' = IF r.exc = "none" THEN 0
                    ELSE IF r.exc = "Assembler.Error" THEN 3 ELSE 1

\* main calls assembler.build(output_filepath).
Build ==
    /\ pc = "build"
    /\ Built(build(ParserFields))
    /\ pc' = "exit"
    /\ UNCHANGED <<input, line_no, parse_mode, data_labels, data_section, code_labels,
                   code_section, last_parsed_line, last_parsed_line_no, assembler>>

Next ==
    \/ \E line \in SourceLines(input) : ReadLine(line)
    \/ EndOfFile
    \/ Build

Spec == Init /\ [][Next]_vars

-----------------------------------------------------------------------------
(* Reading the program's state                                             *)

\* The run ended with exit status 0: the program assembled successfully.
Assembled == pc = "exit" /\ exit_code = 0

\* Assembler.build was called and has ended.
BuildEnded == pc = "exit" /\ assembler

\* The argument kinds of instruction i of code_section.
KindsOf(i) == Opcodes[code_section[i][1]].args

\* The instructions of code_section whose first argument is a code label (in
\* the opcode table a label is always the first argument).
LabelInstructions ==
    {i \in 1..Len(code_section) : KindsOf(i) # <<>> /\ KindsOf(i)[1] = "L"}

\* The index in code_section that the label argument of instruction i names.
TargetIndex(i) == code_labels[code_section[i][2]]

RECURSIVE DecodeLSB(_)
\* The number a field of "0"/"1" entries holds, least significant first.
DecodeLSB(bits) ==
    IF bits = <<>> THEN 0
    ELSE (IF Head(bits) = "1" THEN 1 ELSE 0) + 2 * DecodeLSB(Tail(bits))

\* The 32-bit field of the label argument of instruction i, decoded.
LabelField(i) ==
    DecodeLSB(SubSeq(bytecode,
                     offsets_list[i] + Len(Opcodes[code_section[i][1]].code) + 1,
                     offsets_list[i] + Len(Opcodes[code_section[i][1]].code) + 32))

\* The 32-bit little-endian number at byte i of the output file.
FileU32(i) ==
    file[i] + 256 * file[i + 1] + 65536 * file[i + 2] + 16777216 * file[i + 3]

HeaderWritten == file_opened /\ Len(file) >= 20

HeaderDataSize == FileU32(13)

HeaderDataInitialLength == FileU32(17)

\* The low four bits of a register id, least significant first.
LowFourBits(register_id) ==
    <<>> \o [j \in 1..4 |-> IF (register_id \div (2 ^ (j - 1))) % 2 = 1 THEN "1" ELSE "0"]

\* The 64-bit two's complement of a parsed literal, least significant bit
\* first: the magnitude's low 64 bits, and for a negative literal every bit
\* above the lowest set one inverted.
TwosComplement64(n) ==
    LET m   == Magnitude(n)
        low == <<>> \o [j \in 1..64 |-> IF j <= Len(m) THEN m[j] ELSE 0]
        set == {j \in 1..64 : low[j] = 1}
        k   == IF set = {} THEN 64 ELSE CHOOSE j \in set : \A x \in set : j <= x
    IN  <<>> \o [j \in 1..64 |->
                    IF (IF n.neg /\ j > k THEN 1 - low[j] ELSE low[j]) = 1
                    THEN "1" ELSE "0"]

\* The register arguments <<i, k>> of code_section: argument k of instruction i.
RegisterArguments ==
    {ik \in (1..Len(code_section)) \X (1..4) :
        ik[2] <= Len(KindsOf(ik[1])) /\ KindsOf(ik[1])[ik[2]] = "R"}

\* The constant arguments of code_section that int(text, 0) accepts.
ConstantArguments ==
    {ik \in (1..Len(code_section)) \X (1..4) :
        /\ ik[2] <= Len(KindsOf(ik[1]))
        /\ KindsOf(ik[1])[ik[2]] = "C"
        /\ ParseInt(code_section[ik[1]][ik[2] + 1], 0).ok}

\* A line of tokens is a label definition for Parser.analyse.
IsLabelLine(tokens) ==
    /\ tokens # <<>>
    /\ ~StartsWith(tokens[1], <<".">>)
    /\ Len(tokens) = 1
    /\ EndsWith(tokens[1], <<":">>)

\* A line of tokens is parsed as an instruction in the current state.
IsInstructionLine(tokens) ==
    /\ tokens # <<>>
    /\ ~StartsWith(tokens[1], <<".">>)
    /\ ~IsLabelLine(tokens)
    /\ parse_mode = "Code"

\* The line defines a label its section already holds.
DuplicateLabel(tokens) ==
    /\ IsLabelLine(tokens)
    /\ \/ parse_mode = "Code"
          /\ SubSeq(tokens[1], 1, Len(tokens[1]) - 1) \in DOMAIN code_labels
       \/ parse_mode = "Data"
          /\ SubSeq(tokens[1], 1, Len(tokens[1]) - 1) \in DOMAIN data_labels

\* The line is an instruction whose mnemonic is not in the opcode table.
UnknownOpcode(tokens) ==
    IsInstructionLine(tokens) /\ tokens[1] \notin DOMAIN Opcodes

\* The register id written in argument text s, -1 when s is no register.
WrittenRegisterId(s) ==
    IF MatchRegisterVal(s, 1).matched
    THEN IntValue(ParseInt(MatchRegisterVal(s, 1).id, 10))
    ELSE IF MatchRegisterRef(s).matched
    THEN IntValue(ParseInt(MatchRegisterRef(s).id, 10))
    ELSE -1

\* The line is an instruction with a register argument whose id exceeds 16.
OversizedRegister(tokens) ==
    /\ IsInstructionLine(tokens)
    /\ tokens[1] \in DOMAIN Opcodes
    /\ \E k \in 1..Len(Opcodes[tokens[1]].args) :
          /\ Opcodes[tokens[1]].args[k] = "R"
          /\ k <= Len(translate_argument_tokens(Tail(tokens)))
          /\ WrittenRegisterId(translate_argument_tokens(Tail(tokens))[k]) > 16

\* The line is a .dataSize directive whose argument is missing or is not
\* an integer.
MalformedDataSize(tokens) ==
    /\ tokens # <<>>
    /\ tokens[1] = DataSizeToken
    /\ (Len(tokens) < 2 \/ ~ParseInt(tokens[2], 10).ok)

\* The parser has just been handed a line (this step is a turn of the loop
\* of Parser.analyse on a line that holds tokens).
LineParsed == pc = "analyse" /\ last_parsed_line_no' = line_no + 1

-----------------------------------------------------------------------------
(* The claims                                                              *)

\* C1, as stated: in a successfully assembled program the 32-bit field of
\* every code label argument holds the bit offset of the referenced
\* instruction divided by 8 (rounded either way).
C1_LabelFieldIsOffsetDividedBy8 ==
    Assembled =>
        \A i \in LabelInstructions :
            /\ TargetIndex(i) < Len(offsets_list)
            /\ LabelField(i) \in {offsets_list[TargetIndex(i) + 1] \div 8,
                                  (offsets_list[TargetIndex(i) + 1] + 7) \div 8}

\* C1, amended: in a successfully assembled program the 32-bit field of
\* every code label argument, forward or backward, holds the bit offset of
\* the referenced instruction's first bit, undivided.
C1_LabelFieldIsBitOffset ==
    Assembled =>
        \A i \in LabelInstructions :
            /\ TargetIndex(i) < Len(offsets_list)
            /\ LabelField(i) = offsets_list[TargetIndex(i) + 1]

\* C1 witness: a successful assembly with a forward reference to an
\* instruction that does not start at bit 0 (jump end / end: / hlt).
C1_Witness ==
    /\ Assembled
    /\ \E i \in LabelInstructions :
          /\ TargetIndex(i) >= i
          /\ TargetIndex(i) < Len(offsets_list)
          /\ LabelField(i) = 37

\* C2: when the source never declares .dataSize, build treats the size as
\* zero: unless the build fails for another reason, it completes with exit
\* status 0 and the header's data_size is the length of data_section.
C2_AbsentDataSizeIsZero ==
    [][(pc = "build" /\ data_size = None
           /\ exc' \notin {"Assembler.Error", "IndexError", "ValueError", "struct.error"})
        => (exit_code' = 0 /\ HeaderWritten' /\ HeaderDataSize' = Len(data_section))]_vars

\* C3: every register argument the parser accepted is emitted as 0 and the
\* low four bits of its id (5 bits) in value form, and as 1, the 2-bit width
\* code and the low four bits of its id (7 bits) in reference form.
C3_RegisterFieldWidth ==
    \A ik \in RegisterArguments :
        LET arg == code_section[ik[1]][ik[2] + 1]
        IN  register_bits(arg) =
                IF arg[2] = None
                THEN <<"0">> \o LowFourBits(arg[1])
                ELSE <<"1">> \o Reverse(DataAccessTypes[arg[2]]) \o LowFourBits(arg[1])

\* C4: for every constant argument the emitter appends exactly 64 bits, the
\* constant modulo 2^64 least significant bit first.
C4_ConstantIs64Bits ==
    \A ik \in ConstantArguments :
        constant_bits(ParseInt(code_section[ik[1]][ik[2] + 1], 0))
            = TwosComplement64(ParseInt(code_section[ik[1]][ik[2] + 1], 0))

\* C5: a line that defines a duplicate label, names an unknown opcode or
\* gives a register id above 16 ends the run with a Parser.Error and exit
\* status 2, and the output file is opened only by the assembler, which main
\* constructs after Parser.analyse has returned.
C5_ParseErrorBeforeOutput ==
    [][/\ (LineParsed /\ (\/ DuplicateLabel(Tokens(last_parsed_line'))
                          \/ UnknownOpcode(Tokens(last_parsed_line'))
                          \/ OversizedRegister(Tokens(last_parsed_line'))))
          => (pc' = "exit" /\ exc' = "Parser.Error" /\ exit_code' = 2
                 /\ ~file_opened' /\ ~assembler')
       /\ file_opened' => (assembler /\ pc = "build")]_vars

\* C5 witness: the run has ended on a duplicate code label with exit status
\* 2 and no output file.
C5_Witness ==
    /\ pc = "exit" /\ exit_code = 2 /\ ~file_opened
    /\ DuplicateLabel(Tokens(last_parsed_line))
    /\ stdout = << <<"Parser error on line %d: %s", last_parsed_line_no, "Duplicated label">> >>

\* C6: a run that ends on a malformed .dataSize directive ends with a
\* Parser.Error, reported as "Parser error on line <N>: <msg>", and exit
\* status 2.
C6_MalformedDataSizeIsParseError ==
    (pc = "exit" /\ ~assembler /\ MalformedDataSize(Tokens(last_parsed_line)))
        => /\ exc = "Parser.Error"
           /\ exit_code = 2
           /\ stdout # <<>>
           /\ stdout[Len(stdout)][1] = "Parser error on line %d: %s"

\* C7: in every output file whose header build has written, data_size is at
\* least data_initial_length.
C7_HeaderDataSizeCoversData ==
    HeaderWritten => HeaderDataSize >= HeaderDataInitialLength

\* C7 witness: a finished output file whose declared size was smaller than
\* its data and was widened.
C7_Witness ==
    /\ Assembled /\ HeaderWritten
    /\ HeaderDataInitialLength > 0
    /\ HeaderDataSize = HeaderDataInitialLength
    /\ stdout[1] = <<"Warning: bad .dataSize, was %d but used %d, expanding", 0, Len(data_section)>>

\* C8, as stated: Assembler.build leaves every field of the parser unchanged.
C8_BuildLeavesParserUnchanged ==
    [][pc = "build" =>
          UNCHANGED <<data_size, data_section, data_labels, code_section, code_labels>>]_vars

\* C8, amended: Assembler.build leaves data_section, data_labels,
\* code_section and code_labels unchanged, and changes data_size only when
\* the declared size is smaller than the length of data_section, to that
\* length.
C8_BuildOnlyWidensDataSize ==
    [][pc = "build" =>
          /\ UNCHANGED <<data_section, data_labels, code_section, code_labels>>
          /\ data_size' # data_size =>
                /\ data_size # None
                /\ Len(data_section) > data_size[1]
                /\ data_size' = <<Len(data_section)>>]_vars

\* C8 witness: build has ended after widening a declared size of 0.
C8_Witness ==
    /\ BuildEnded
    /\ data_section # <<>>
    /\ data_size = <<Len(data_section)>>
    /\ stdout # <<>>
    /\ stdout[1] = <<"Warning: bad .dataSize, was %d but used %d, expanding", 0, Len(data_section)>>

\* C9: every element of data_section is an integer in 0..255.
C9_DataBytesInRange ==
    \A i \in 1..Len(data_section) : data_section[i] >= 0 /\ data_section[i] <= 255

\* C10: when every label argument names a key of code_labels and emission
\* completed, every recorded patch targets an emitted instruction and
\* patching does not raise IndexError.
C10_PatchTargetsInRange ==
    (/\ BuildEnded
     /\ \A i \in LabelInstructions : code_section[i][2] \in DOMAIN code_labels
     /\ ~(exc = "ValueError" /\ ~file_opened))
        => /\ \A position \in DOMAIN offset_patches :
                 offset_patches[position] < Len(offsets_list)
           /\ exc # "IndexError"

====
